---------------------------- MODULE Spec2Model ----------------------------
(***************************************************************************)
(* Model of scripts/run_exports_query.py: the per-lender export pipeline   *)
(* (tier join, prepare_rank_data, clean_dataframe, save_to_csv) and the    *)
(* driver loop of main().                                                  *)
(*                                                                         *)
(* A DataFrame is a sequence of rows; a row is a record of cells.  A cell  *)
(* that may be missing is a sequence of length 0 (missing: None/NaN/NaT)   *)
(* or 1 (the value).  Text is a sequence of one-character strings.  A      *)
(* timestamp is the month ordinal (year * 12 + month - 1) of its UTC wall  *)
(* clock; every timestamp of the model is on the 15th at 12:00:00.         *)
(***************************************************************************)
EXTENDS Integers, Sequences, FiniteSets, TLC

VARIABLES
    pc,         \* position in the try block of main() for the current lender
    df,         \* result_df
    timeDtype,  \* dtype of result_df['time']
    count_df,   \* count_df of prepare_rank_data (with rank_in_tier)
    csv,        \* the file save_to_csv writes: missing, or its lines (header first)
    error,      \* the exception caught by main()'s except clause, "" if none
    lenders,    \* get_lenders() result (driver)
    idx,        \* number of lenders the for loop has taken (driver)
    exports,    \* files in OUTPUT_DIR: lender name -> missing, or the file's lines
    errlog,     \* lenders for which "Error running query for" was printed
    attempts    \* per lender taken: what the query and the file system did

vars == <<pc, df, timeDtype, count_df, csv, error, lenders, idx, exports, errlog,
          attempts>>

---------------------------------------------------------------------------
(* Bounds of the model *)

MaxRows == 2
MaxDeepRows == 5
MaxTextLen == 2
MaxLenders == 2

---------------------------------------------------------------------------
(* Cells *)

Null == <<>>
Some(v) == <<v>>
IsNull(c) == Len(c) = 0
Val(c) == c[1]

RECURSIVE Concat(_)
Concat(ss) == IF Len(ss) = 0 THEN <<>> ELSE Head(ss) \o Concat(Tail(ss))

RECURSIVE SetToSeq(_)
SetToSeq(S) ==
    IF S = {} THEN <<>>
    ELSE LET x == CHOOSE y \in S : TRUE IN <<x>> \o SetToSeq(S \ {x})

RECURSIVE Digits(_)
Digits(n) ==
    LET d == <<"0", "1", "2", "3", "4", "5", "6", "7", "8", "9">>[(n % 10) + 1]
    IN IF n < 10 THEN <<d>> ELSE Digits(n \div 10) \o <<d>>

Pad2(n) == IF n < 10 THEN <<"0">> \o Digits(n) ELSE Digits(n)

---------------------------------------------------------------------------
(* load_config and the date variables of main() *)

ReportYear == 2025
ReportMonthOfYear == 8

current_month == ReportYear * 12 + (ReportMonthOfYear - 1)
one_month_before == current_month - 1
two_months_before == current_month - 2

---------------------------------------------------------------------------
(* competitor-list.csv, as pd.read_csv returns it *)

tier_df ==
    << [Lender |-> <<"A">>, Tier |-> <<"1">>],
       [Lender |-> <<"B">>, Tier |-> <<"1">>],
       [Lender |-> <<"C">>, Tier |-> <<"1">>],
       [Lender |-> <<"D">>, Tier |-> <<"2">>] >>

(* result_df.merge(tier_df, how='left', left_on='exportedLender',
   right_on='Lender').drop(columns=['Lender']) *)
TierRowsFor(r, t) ==
    LET m == SelectSeq(t, LAMBDA x : x.Lender = r.exportedLender)
        With(tier) == [exportedLender |-> r.exportedLender, time |-> r.time,
                       scenarioId |-> r.scenarioId,
                       primaryIncome |-> r.primaryIncome, lvr |-> r.lvr,
                       Tier |-> tier]
    IN IF Len(m) = 0 THEN <<With(Null)>>
       ELSE [j \in 1..Len(m) |-> With(Some(m[j].Tier))]

TierMerge(d, t) == Concat([i \in 1..Len(d) |-> TierRowsFor(d[i], t)])

---------------------------------------------------------------------------
(* prepare_rank_data *)

(* line 109-110: a zone-aware column is converted to UTC and made naive; the
   cells hold the UTC wall clock already, so only the dtype changes *)
NormalizeTz(dt) == IF dt = "datetime64[ns]" THEN dt ELSE "datetime64[ns]"

(* lines 113-118: NaT compares unequal to every period *)
InWindow(r) ==
    /\ ~IsNull(r.time)
    /\ Val(r.time) \in {current_month, one_month_before, two_months_before}

Filtered(d) == SelectSeq(d, InWindow)

(* line 121: groupby drops the rows whose Tier key is missing; count() is
   the number of non-missing scenarioId of the group *)
GroupKeys(f) ==
    {<<Val(f[i].Tier), f[i].exportedLender, Val(f[i].time)>> :
        i \in {j \in 1..Len(f) : ~IsNull(f[j].Tier)}}

ScenarioCount(f, k) ==
    Cardinality({i \in 1..Len(f) :
        /\ ~IsNull(f[i].Tier)
        /\ <<Val(f[i].Tier), f[i].exportedLender, Val(f[i].time)>> = k
        /\ ~IsNull(f[i].scenarioId)})

Counts(f) ==
    {[Tier |-> k[1], exportedLender |-> k[2], Month |-> k[3],
      scenario_count |-> ScenarioCount(f, k)] : k \in GroupKeys(f)}

(* rank(ascending=False, method='min'): the values of the group in
   descending order; a value's rank is the first position it occupies *)
RECURSIVE SortDesc(_)
SortDesc(rows) ==
    IF rows = {} THEN <<>>
    ELSE LET top == CHOOSE r \in rows :
                        \A q \in rows : q.scenario_count <= r.scenario_count
         IN <<top.scenario_count>> \o SortDesc(rows \ {top})

FirstPosition(s, v) == CHOOSE i \in 1..Len(s) :
                           /\ s[i] = v
                           /\ \A j \in 1..(i - 1) : s[j] # v

(* rank(method='dense') in place of method='min' *)
RankDenseDesc(group, v) ==
    1 + Cardinality({n \in {q.scenario_count : q \in group} : n > v})

RankMinDesc(group, v) == FirstPosition(SortDesc(group), v)

TierMonthGroup(c, r) == {q \in c : q.Tier = r.Tier /\ q.Month = r.Month}

RankInTier(c) ==
    {[Tier |-> r.Tier, exportedLender |-> r.exportedLender, Month |-> r.Month,
      scenario_count |-> r.scenario_count,
      rank_in_tier |-> RankMinDesc(TierMonthGroup(c, r), r.scenario_count)] :
        r \in c}

CountDf(d) == RankInTier(Counts(Filtered(d)))

(* lines 128-133: pivot_table; one row per (Tier, exportedLender), one
   column per Month that occurs in count_df, cells without a value are
   filled with fill_value *)
PivotColumns(c) == {r.Month : r \in c}

PivotFill == 0

PivotCell(c, tier, lender, month) ==
    LET hit == {r \in c : r.Tier = tier /\ r.exportedLender = lender
                          /\ r.Month = month}
    IN IF hit = {} THEN Some(PivotFill)
       ELSE Some((CHOOSE r \in hit : TRUE).rank_in_tier)

PivotIndex(c) == {<<r.Tier, r.exportedLender>> : r \in c}

PivotDf(c) ==
    SetToSeq({[Tier |-> k[1], exportedLender |-> k[2],
               rank_in_tier_one_month |-> PivotCell(c, k[1], k[2], one_month_before),
               rank_in_tier_two_months |-> PivotCell(c, k[1], k[2], two_months_before)] :
                  k \in PivotIndex(c)})

(* line 158: selecting a column the pivot does not have raises KeyError *)
PivotHasRankColumns(c) ==
    /\ one_month_before \in PivotColumns(c)
    /\ two_months_before \in PivotColumns(c)

(* how='inner' in place of how='left' *)
RankRowsForInner(r, p) ==
    LET m == SelectSeq(p, LAMBDA x : /\ ~IsNull(r.Tier)
                                     /\ x.Tier = Val(r.Tier)
                                     /\ x.exportedLender = r.exportedLender)
    IN [j \in 1..Len(m) |->
           [exportedLender |-> r.exportedLender, time |-> r.time,
            scenarioId |-> r.scenarioId,
            primaryIncome |-> r.primaryIncome, lvr |-> r.lvr,
            Tier |-> r.Tier,
            rank_in_tier_one_month |-> m[j].rank_in_tier_one_month,
            rank_in_tier_two_months |-> m[j].rank_in_tier_two_months]]

(* lines 157-161: left merge on (Tier, exportedLender) *)
RankRowsFor(r, p) ==
    LET m == SelectSeq(p, LAMBDA x : /\ ~IsNull(r.Tier)
                                     /\ x.Tier = Val(r.Tier)
                                     /\ x.exportedLender = r.exportedLender)
        With(r1, r2) == [exportedLender |-> r.exportedLender, time |-> r.time,
                         scenarioId |-> r.scenarioId,
                         primaryIncome |-> r.primaryIncome, lvr |-> r.lvr,
                         Tier |-> r.Tier,
                         rank_in_tier_one_month |-> r1,
                         rank_in_tier_two_months |-> r2]
    IN IF Len(m) = 0 THEN <<With(Null, Null)>>
       ELSE [j \in 1..Len(m) |-> With(m[j].rank_in_tier_one_month,
                                      m[j].rank_in_tier_two_months)]

RankMerge(d, p) == Concat([i \in 1..Len(d) |-> RankRowsFor(d[i], p)])

---------------------------------------------------------------------------
(* clean_dataframe *)

NaTText == <<"N", "a", "T">>
NoneText == <<"N", "o", "n", "e">>

(* the wall clock of the column's zone, YYYY-MM-DD HH:MM:SS; the zone of
   "datetime64[ns, tz]" is ten hours ahead of UTC *)
TimeText(ym, dt) ==
    Digits(ym \div 12) \o <<"-">> \o Pad2((ym % 12) + 1) \o <<"-", "1", "5", " ">>
        \o (IF dt = "datetime64[ns, tz]" THEN <<"2", "2">> ELSE <<"1", "2">>)
        \o <<":", "0", "0", ":", "0", "0">>

(* strftime('%z'): empty for a naive timestamp *)
OffsetText(dt) ==
    IF dt = "datetime64[ns]" THEN <<>>
    ELSE IF dt = "datetime64[ns, UTC]" THEN <<"+", "0", "0", "0", "0">>
    ELSE <<"+", "1", "0", "0", "0">>

(* str() of a Timestamp: the offset of a zone-aware one reads +HH:MM *)
IsoOffsetText(dt) ==
    IF dt = "datetime64[ns]" THEN <<>>
    ELSE IF dt = "datetime64[ns, UTC]" THEN <<"+", "0", "0", ":", "0", "0">>
    ELSE <<"+", "1", "0", ":", "0", "0">>

(* line 56: df['time'].astype(str); NaT becomes the text NaT, a column
   that already holds text is unchanged *)
TimeAsStr(c, dt) ==
    IF dt = "object" THEN c
    ELSE IF IsNull(c) THEN Some(NaTText)
    ELSE Some(TimeText(Val(c), dt) \o IsoOffsetText(dt))

(* line 60: astype(str) of an object column as pandas 2 does it; None
   becomes the text None *)
AsTypeStr(c) == IF IsNull(c) THEN NoneText ELSE Val(c)

StrippedChars == {"[", "]", "{", "}", "\"", "\\", ","}

(* a replace that drops the first match only *)
RECURSIVE StripFirst(_)
StripFirst(t) ==
    IF Len(t) = 0 THEN t
    ELSE IF Head(t) \in StrippedChars THEN Tail(t)
    ELSE <<Head(t)>> \o StripFirst(Tail(t))

(* line 60: replace(r'[\[\]\{\}"\\,]', '', regex=True) *)
StripText(t) == SelectSeq(t, LAMBDA ch : ch \notin StrippedChars)

CleanString(c) == Some(StripText(AsTypeStr(c)))

DigitChars == {"0", "1", "2", "3", "4", "5", "6", "7", "8", "9"}

DigitValue(ch) == CHOOSE n \in 0..9 : Digits(n) = <<ch>>

RECURSIVE ParseDigits(_, _)
ParseDigits(t, acc) ==
    IF Len(t) = 0 THEN acc
    ELSE ParseDigits(Tail(t), acc * 10 + DigitValue(Head(t)))

(* line 71: pd.to_numeric(errors='coerce'); a number stays, text that is a
   number is parsed, anything else becomes NaN *)
ToNumeric(c) ==
    IF IsNull(c) THEN Null
    ELSE IF Val(c).k = "num" THEN c
    ELSE IF Len(Val(c).s) > 0 /\ \A i \in 1..Len(Val(c).s) : Val(c).s[i] \in DigitChars
         THEN Some([k |-> "num", n |-> ParseDigits(Val(c).s, 0), s |-> <<>>])
    ELSE Null

CleanRow(r, dt) ==
    [exportedLender |-> StripText(r.exportedLender),
     time |-> TimeAsStr(r.time, dt),
     scenarioId |-> CleanString(r.scenarioId),
     primaryIncome |-> CleanString(r.primaryIncome),
     lvr |-> ToNumeric(r.lvr),
     Tier |-> r.Tier,
     rank_in_tier_one_month |-> r.rank_in_tier_one_month,
     rank_in_tier_two_months |-> r.rank_in_tier_two_months]

clean_dataframe(d, dt) == [i \in 1..Len(d) |-> CleanRow(d[i], dt)]

---------------------------------------------------------------------------
(* save_to_csv *)

Columns ==
    << <<"exportedLender">>, <<"time">>, <<"scenarioId">>, <<"primaryIncome">>,
       <<"lvr">>, <<"Tier">>, <<"rank_in_tier_one_month">>,
       <<"rank_in_tier_two_months">> >>

(* a float64 column: the digits and .0 (the rank columns are float64
   whenever a cell of the pivot or of the merge is missing) *)
NumText(n) == Digits(n) \o <<".", "0">>

(* na_rep='' *)
NaRep == <<>>

TextField(c) == IF IsNull(c) THEN NaRep ELSE Val(c)

NumField(c) == IF IsNull(c) THEN NaRep ELSE NumText(Val(c).n)

RankField(c) == IF IsNull(c) THEN NaRep ELSE NumText(Val(c))

(* date_format applies to a datetime column only *)
TimeField(c, dt) ==
    IF IsNull(c) THEN NaRep
    ELSE IF dt = "object" THEN Val(c)
    ELSE TimeText(Val(c), dt) \o OffsetText(dt)

(* quoting=csv.QUOTE_ALL, doublequote=True, escapechar='\\' *)
Quoted(t) ==
    <<"\"">> \o Concat([i \in 1..Len(t) |->
                          IF t[i] = "\"" THEN <<"\"", "\"">>
                          ELSE IF t[i] = "\\" THEN <<"\\", "\\">>
                          ELSE <<t[i]>>])
             \o <<"\"">>

CsvLine(r, dt) ==
    << Quoted(r.exportedLender), Quoted(TimeField(r.time, dt)),
       Quoted(TextField(r.scenarioId)), Quoted(TextField(r.primaryIncome)),
       Quoted(NumField(r.lvr)), Quoted(TextField(r.Tier)),
       Quoted(RankField(r.rank_in_tier_one_month)),
       Quoted(RankField(r.rank_in_tier_two_months)) >>

to_csv(d, dt) ==
    <<[j \in 1..Len(Columns) |-> Quoted(Columns[j])]>>
        \o [i \in 1..Len(d) |-> CsvLine(d[i], dt)]

---------------------------------------------------------------------------
(* The try block of main(), lines 220-242, as one function of the query
   outcome and of what the file system does *)

prepare_rank_data(d) ==
    LET c == CountDf(d)
    IN IF PivotHasRankColumns(c)
       THEN [ok |-> TRUE, df |-> RankMerge(d, PivotDf(c))]
       ELSE [ok |-> FALSE, df |-> <<>>]

(* what the file system does with df.to_csv(output_path) of a frame of n
   lines: the write succeeds, the file cannot be opened, or the file is
   opened and the write raises after some of the lines *)
IoOutcomes(n) ==
    {[ok |-> TRUE, opened |-> TRUE, written |-> n],
     [ok |-> FALSE, opened |-> FALSE, written |-> 0]}
        \cup {[ok |-> FALSE, opened |-> TRUE, written |-> k] : k \in 0..n}

(* lines 77-88: to_csv opens output_path, then writes the lines; nothing
   removes the file when it raises.  The read-back of lines 91-104 only
   prints. *)
save_to_csv(d, dt, io) ==
    IF ~io.opened THEN [ok |-> FALSE, file |-> Null]
    ELSE [ok |-> io.ok, file |-> Some(SubSeq(to_csv(d, dt), 1, io.written))]

Failure(e) == [ok |-> FALSE, csv |-> Null, error |-> e]

RunTry(q, fileOk, io) ==
    IF ~q.ok THEN Failure("QueryError")
    ELSE IF ~fileOk THEN Failure("FileNotFoundError")
    ELSE LET ranked == prepare_rank_data(TierMerge(q.df, tier_df))
         IN IF ~ranked.ok THEN Failure("KeyError")
            ELSE LET saved == save_to_csv(clean_dataframe(ranked.df,
                                                          NormalizeTz(q.dtype)),
                                          "object", io)
                 IN [ok |-> saved.ok, csv |-> saved.file,
                     error |-> IF saved.ok THEN "" ELSE "OSError"]

---------------------------------------------------------------------------
(* Query results *)

RawRow(l, t, sid, income, num) ==
    [exportedLender |-> l, time |-> t, scenarioId |-> sid,
     primaryIncome |-> income, lvr |-> num]

Number(n) == Some([k |-> "num", n |-> n, s |-> <<>>])
NumberText(t) == Some([k |-> "str", n |-> 0, s |-> t])

DefaultSid == Some(<<"s">>)
DefaultIncome == Some(<<"a">>)
DefaultLvr == Number(7)

SeqsUpTo(S, n) == UNION {[1..k -> S] : k \in 0..n}

AllLenders == {<<"A">>, <<"B">>, <<"C">>, <<"D">>, <<"E">>}
AllTimes == {Null} \cup {Some(m) : m \in (current_month - 3)..current_month}
AllSids == {Null, DefaultSid}

WideRows ==
    {RawRow(l, t, sid, DefaultIncome, DefaultLvr) :
        l \in AllLenders, t \in AllTimes, sid \in AllSids}

DeepRows ==
    {RawRow(l, t, DefaultSid, DefaultIncome, DefaultLvr) :
        l \in {<<"A">>, <<"B">>, <<"C">>},
        t \in {Some(one_month_before), Some(two_months_before)}}

PlainRows ==
    {RawRow(l, t, DefaultSid, DefaultIncome, DefaultLvr) :
        l \in AllLenders, t \in AllTimes}

Anchors ==
    << RawRow(<<"A">>, Some(one_month_before), DefaultSid, DefaultIncome, DefaultLvr),
       RawRow(<<"A">>, Some(two_months_before), DefaultSid, DefaultIncome, DefaultLvr) >>

WideFrames == SeqsUpTo(WideRows, MaxRows)
AnchoredFrames == {Anchors \o f : f \in SeqsUpTo(PlainRows, MaxRows)}
DeepFrames == SeqsUpTo(DeepRows, MaxDeepRows)

TimeDtypes == {"datetime64[ns]", "datetime64[ns, UTC]", "datetime64[ns, tz]"}

TextChars == {"a"} \cup StrippedChars
Texts == SeqsUpTo(TextChars, MaxTextLen)

NumCells ==
    {Null, Number(7), NumberText(<<"4", "2">>), NumberText(<<"x">>),
     NumberText(<<"7", "x">>), NumberText(<<>>)}

CleanRows ==
    {RawRow(l, t, DefaultSid, income, num) :
        l \in {<<"A">>, <<"E">>},
        t \in {Null, Some(one_month_before)},
        income \in {Null} \cup {Some(x) : x \in Texts},
        num \in NumCells}

CleanFrames == {Anchors \o <<r>> : r \in CleanRows}

---------------------------------------------------------------------------
(* One lender's pass through the try block, step by step *)

Idle ==
    /\ lenders = <<>>
    /\ idx = 0
    /\ exports = <<>>
    /\ errlog = <<>>
    /\ attempts = <<>>

Fetched(frames, dtypes) ==
    /\ pc = "fetched"
    /\ df \in frames
    /\ timeDtype \in dtypes
    /\ count_df = {}
    /\ csv = Null
    /\ error = ""
    /\ Idle

Init ==
    \/ Fetched(DeepFrames, {"datetime64[ns]"})
    \/ Fetched(AnchoredFrames, TimeDtypes)
    \/ Fetched(WideFrames, {"datetime64[ns]"})

CleanInit == Fetched(CleanFrames, TimeDtypes)

Raise(e) ==
    /\ pc' = "failed"
    /\ error' = e
    /\ df' = <<>>
    /\ count_df' = {}
    /\ UNCHANGED <<timeDtype, csv>>

(* lines 223-225 *)
TierJoin ==
    /\ pc = "fetched"
    /\ \E fileOk \in BOOLEAN :
          IF fileOk
          THEN /\ df' = TierMerge(df, tier_df)
               /\ pc' = "joined"
               /\ UNCHANGED <<timeDtype, count_df, csv, error>>
          ELSE Raise("FileNotFoundError")
    /\ UNCHANGED <<lenders, idx, exports, errlog, attempts>>

(* prepare_rank_data, lines 108-125 *)
CountAndRank ==
    /\ pc = "joined"
    /\ timeDtype' = NormalizeTz(timeDtype)
    /\ count_df' = CountDf(df)
    /\ pc' = "counted"
    /\ UNCHANGED <<df, csv, error, lenders, idx, exports, errlog, attempts>>

(* prepare_rank_data, lines 127-168 *)
PivotAndMerge ==
    /\ pc = "counted"
    /\ IF PivotHasRankColumns(count_df)
       THEN /\ df' = RankMerge(df, PivotDf(count_df))
            /\ pc' = "ranked"
            /\ UNCHANGED <<timeDtype, count_df, csv, error>>
       ELSE Raise("KeyError")
    /\ UNCHANGED <<lenders, idx, exports, errlog, attempts>>

(* line 235 *)
CleanDataframe ==
    /\ pc = "ranked"
    /\ df' = clean_dataframe(df, timeDtype)
    /\ timeDtype' = "object"
    /\ pc' = "cleaned"
    /\ UNCHANGED <<count_df, csv, error, lenders, idx, exports, errlog, attempts>>

(* lines 238-239 *)
SaveToCsv ==
    /\ pc = "cleaned"
    /\ \E io \in IoOutcomes(Len(df) + 1) :
          LET saved == save_to_csv(df, timeDtype, io)
          IN /\ csv' = saved.file
             /\ IF saved.ok
                THEN /\ pc' = "saved"
                     /\ UNCHANGED <<df, timeDtype, count_df, error>>
                ELSE /\ pc' = "failed"
                     /\ error' = "OSError"
                     /\ df' = <<>>
                     /\ count_df' = {}
                     /\ UNCHANGED timeDtype
    /\ UNCHANGED <<lenders, idx, exports, errlog, attempts>>

Next ==
    \/ TierJoin
    \/ CountAndRank
    \/ PivotAndMerge
    \/ CleanDataframe
    \/ SaveToCsv

Spec == Init /\ [][Next]_vars

CleanSpec == CleanInit /\ [][Next]_vars

---------------------------------------------------------------------------
(* main(): the loop over get_lenders(), lines 203-246 *)

LenderNames == {<<"A">>, <<"B">>, <<"E">>}

LenderLists ==
    {l \in SeqsUpTo(LenderNames, MaxLenders) :
        \A i, j \in 1..Len(l) : i # j => l[i] # l[j]}

Row(l, t) == RawRow(l, t, DefaultSid, DefaultIncome, DefaultLvr)

QueryFrames ==
    { <<>>,
      <<Row(<<"E">>, Some(one_month_before))>>,
      <<Row(<<"E">>, Some(one_month_before)), Row(<<"E">>, Some(two_months_before))>>,
      <<Row(<<"A">>, Some(one_month_before)), Row(<<"A">>, Some(two_months_before))>>,
      <<Row(<<"A">>, Some(one_month_before)), Row(<<"E">>, Null),
        Row(<<"A">>, Some(two_months_before))>>,
      <<Row(<<"E">>, Some(current_month)), Row(<<"A">>, Some(one_month_before)),
        Row(<<"B">>, Some(two_months_before)), Row(<<"B">>, Some(one_month_before))>> }

QueryOutcomes ==
    {[ok |-> FALSE, df |-> <<>>, dtype |-> "datetime64[ns]"]}
        \cup {[ok |-> TRUE, df |-> f, dtype |-> "datetime64[ns]"] : f \in QueryFrames}
        \cup {[ok |-> TRUE, df |-> f, dtype |-> "datetime64[ns, UTC]"] :
                 f \in {g \in QueryFrames : Len(g) = 3}}

DriverInit ==
    /\ pc = "loop"
    /\ lenders \in LenderLists
    /\ idx = 0
    /\ exports = [n \in LenderNames |-> Null]
    /\ errlog = <<>>
    /\ attempts = <<>>
    /\ df = <<>>
    /\ timeDtype = "datetime64[ns]"
    /\ count_df = {}
    /\ csv = Null
    /\ error = ""

(* what the except clause of line 241 does with the exception of one lender *)
Handle(log, name, e) == Append(log, [lender |-> name, error |-> e])

(* the except clause is inside the loop body: after it the loop takes the
   next lender *)
AfterFailure(i, n) == i + 1

(* one iteration of the for loop *)
ProcessLender ==
    /\ pc = "loop"
    /\ idx < Len(lenders)
    /\ \E q \in QueryOutcomes, fileOk \in BOOLEAN :
       \E io \in IoOutcomes(Len(q.df) + 1) :
          LET name == lenders[idx + 1]
              r == RunTry(q, fileOk, io)
          IN /\ exports' = IF IsNull(r.csv) THEN exports
                           ELSE [exports EXCEPT ![name] = r.csv]
             /\ errlog' = IF r.ok THEN errlog ELSE Handle(errlog, name, r.error)
             /\ idx' = IF r.ok THEN idx + 1 ELSE AfterFailure(idx, Len(lenders))
             /\ attempts' = Append(attempts, [lender |-> name, q |-> q,
                                              fileOk |-> fileOk, io |-> io])
    /\ UNCHANGED <<pc, lenders, df, timeDtype, count_df, csv, error>>

(* the finally clause, lines 244-246 *)
Finish ==
    /\ pc = "loop"
    /\ idx = Len(lenders)
    /\ pc' = "done"
    /\ UNCHANGED <<lenders, idx, exports, errlog, attempts, df, timeDtype, count_df, csv, error>>

DriverNext == ProcessLender \/ Finish

DriverSpec == DriverInit /\ [][DriverNext]_vars

DriverFairSpec == DriverSpec /\ WF_vars(DriverNext)

---------------------------------------------------------------------------
(* Claims about prepare_rank_data *)

Tiered(r) == ~IsNull(r.Tier)

(* the rows of d that count_df aggregates under (tier, lender, month) *)
QualifyingRows(d, tier, lender, month) ==
    {i \in 1..Len(d) :
        /\ Tiered(d[i]) /\ Val(d[i].Tier) = tier
        /\ d[i].exportedLender = lender
        /\ InWindow(d[i]) /\ Val(d[i].time) = month}

RecordCount(d, r) ==
    Cardinality(QualifyingRows(d, r.Tier, r.exportedLender, r.Month))

NonMissingScenarioCount(d, r) ==
    Cardinality({i \in QualifyingRows(d, r.Tier, r.exportedLender, r.Month) :
                    ~IsNull(d[i].scenarioId)})

SameTierMonth(r, q) == q.Tier = r.Tier /\ q.Month = r.Month

EveryQualifyingEntityIsRanked ==
    \A i \in 1..Len(df) :
        (Tiered(df[i]) /\ InWindow(df[i])) =>
            \E r \in count_df :
                /\ r.Tier = Val(df[i].Tier)
                /\ r.exportedLender = df[i].exportedLender
                /\ r.Month = Val(df[i].time)

(* C1, as stated: in every (Tier, Month) of the window, an entity with a
   qualifying record has rank 1 + the number of other entities of the same
   tier and month whose number of records is strictly greater. *)
C1_RankByRecordCount ==
    pc = "counted" =>
        /\ EveryQualifyingEntityIsRanked
        /\ \A r \in count_df :
              r.rank_in_tier =
                  1 + Cardinality({q \in count_df :
                          /\ SameTierMonth(r, q)
                          /\ RecordCount(df, q) > RecordCount(df, r)})

(* C1, as amended: in every (Tier, Month) of the window, an entity with a
   qualifying record has rank 1 + the number of other entities of the same
   tier and month whose number of records with a non-missing scenarioId is
   strictly greater; ties share a rank and the next count skips the tie
   group; a group of one entity has rank 1. *)
C1_RankByScenarioCount ==
    pc = "counted" =>
        /\ EveryQualifyingEntityIsRanked
        /\ \A r \in count_df :
              /\ r.scenario_count = NonMissingScenarioCount(df, r)
              /\ r.rank_in_tier =
                    1 + Cardinality({q \in count_df :
                            /\ SameTierMonth(r, q)
                            /\ NonMissingScenarioCount(df, q)
                                   > NonMissingScenarioCount(df, r)})
              /\ (\A q \in count_df : SameTierMonth(r, q) => q = r)
                     => r.rank_in_tier = 1

(* three entities of one tier and month with counts 2, 2, 1 and ranks 1, 1, 3 *)
C1_Witness ==
    /\ pc = "counted"
    /\ \E a, b, c \in count_df :
          /\ a # b
          /\ SameTierMonth(a, b) /\ SameTierMonth(a, c)
          /\ a.scenario_count = 2 /\ b.scenario_count = 2 /\ c.scenario_count = 1
          /\ a.rank_in_tier = 1 /\ b.rank_in_tier = 1 /\ c.rank_in_tier = 3

JoinedColumns(r) ==
    [exportedLender |-> r.exportedLender, time |-> r.time,
     scenarioId |-> r.scenarioId, primaryIncome |-> r.primaryIncome,
     lvr |-> r.lvr, Tier |-> r.Tier]

(* C2: when prepare_rank_data returns, its output holds every input record
   exactly once, in the input's order, with the input's columns unchanged,
   whether or not the record has a tier, a timestamp, or a timestamp in
   the window. *)
C2_EveryRecordExactlyOnce ==
    [][(pc = "counted" /\ pc' = "ranked") =>
          /\ Len(df') = Len(df)
          /\ \A i \in 1..Len(df) : JoinedColumns(df'[i]) = df[i]]_vars

(* a returned frame with a record without tier, one without timestamp and
   one outside the window *)
C2_Witness ==
    /\ pc = "ranked"
    /\ \E i, j, k \in 1..Len(df) :
          /\ ~Tiered(df[i])
          /\ IsNull(df[j].time)
          /\ ~IsNull(df[k].time) /\ ~InWindow(df[k])


LaggingRank(r, month) ==
    IF month = one_month_before THEN r.rank_in_tier_one_month
    ELSE r.rank_in_tier_two_months

HasWindowRecords(d, r) ==
    \E i \in 1..Len(d) :
        /\ d[i].exportedLender = r.exportedLender
        /\ d[i].Tier = r.Tier
        /\ InWindow(d[i])

HasQualifyingRecord(d, r, month) ==
    /\ Tiered(r)
    /\ QualifyingRows(d, Val(r.Tier), r.exportedLender, month) # {}

(* C3: in the output of prepare_rank_data, an entity with records in the
   window and no qualifying record in a lagging month has a missing rank
   for that month in every one of its rows, never 0 or another number. *)
C3_UnrankedMonthIsNull ==
    pc = "ranked" =>
        \A i \in 1..Len(df) :
            \A month \in {one_month_before, two_months_before} :
                (HasWindowRecords(df, df[i]) /\ ~HasQualifyingRecord(df, df[i], month))
                    => IsNull(LaggingRank(df[i], month))

(* C9: prepare_rank_data returns for every record set; it does not raise
   when a lagging month has no qualifying record or when no record is in
   the window. *)
C9_PrepareRankDataReturns == ~(pc = "failed" /\ error = "KeyError")

---------------------------------------------------------------------------
(* Claims about clean_dataframe and save_to_csv *)

EmptyField == <<"\"", "\"">>

MissingCellsOf(r) ==
    {j \in 1..Len(Columns) :
        \/ j = 2 /\ IsNull(r.time)
        \/ j = 3 /\ IsNull(r.scenarioId)
        \/ j = 4 /\ IsNull(r.primaryIncome)
        \/ j = 5 /\ IsNull(ToNumeric(r.lvr))
        \/ j = 6 /\ IsNull(r.Tier)
        \/ j = 7 /\ IsNull(r.rank_in_tier_one_month)
        \/ j = 8 /\ IsNull(r.rank_in_tier_two_months)}

(* C7: every cell that is missing in the frame given to clean_dataframe
   (or whose numeric coercion fails) is written by save_to_csv as an empty
   quoted field. *)
C7_MissingRendersEmpty ==
    [][(pc = "ranked" /\ pc' = "cleaned") =>
          \A i \in 1..Len(df) : \A j \in MissingCellsOf(df[i]) :
              to_csv(df', timeDtype')[i + 1][j] = EmptyField]_vars

IsDigits(t) == \A i \in 1..Len(t) : t[i] \in DigitChars

(* "YYYY-MM-DD HH:MM:SS+HHMM" between its quotes *)
IsTimestampWithOffset(f) ==
    /\ Len(f) = 26
    /\ f[1] = "\"" /\ f[26] = "\""
    /\ IsDigits(SubSeq(f, 2, 5)) /\ f[6] = "-"
    /\ IsDigits(SubSeq(f, 7, 8)) /\ f[9] = "-"
    /\ IsDigits(SubSeq(f, 10, 11)) /\ f[12] = " "
    /\ IsDigits(SubSeq(f, 13, 14)) /\ f[15] = ":"
    /\ IsDigits(SubSeq(f, 16, 17)) /\ f[18] = ":"
    /\ IsDigits(SubSeq(f, 19, 20))
    /\ f[21] \in {"+", "-"}
    /\ IsDigits(SubSeq(f, 22, 25))

(* C8: the time field of every written record with a timestamp reads
   YYYY-MM-DD HH:MM:SS followed by a zone offset of the form +HHMM. *)
C8_TimestampHasOffset ==
    pc = "saved" =>
        \A i \in 2..Len(Val(csv)) :
            \/ Val(csv)[i][2] \in {EmptyField, Quoted(NaTText)}
            \/ IsTimestampWithOffset(Val(csv)[i][2])

(* C10: clean_dataframe applied to its own output returns that output,
   cell for cell. *)
C10_CleanIsIdempotent ==
    pc = "cleaned" => clean_dataframe(df, timeDtype) = df

(* a cleaned frame whose row had no timestamp, no free text and no number *)
C10_Witness ==
    /\ pc = "cleaned"
    /\ \E i \in 1..Len(df) :
          /\ df[i].time = Some(NaTText)
          /\ df[i].primaryIncome = Some(NoneText)
          /\ IsNull(df[i].lvr)

---------------------------------------------------------------------------
(* Claims about the loop of main() *)

InTierLookup(l) == \E j \in 1..Len(tier_df) : tier_df[j].Lender = l

(* the query, the tier file and the write all went well *)
NoOutsideFailure(a) == a.q.ok /\ a.fileOk /\ a.io.ok

(* C4: a record whose exportedLender is not in the tier lookup is in the
   written export of its query result, with empty tier and rank fields,
   whatever the mix of matched and unmatched records. *)
C4_UntieredRecordIsExported ==
    \A k \in 1..Len(attempts) :
        LET a == attempts[k]
            file == exports[a.lender]
        IN NoOutsideFailure(a) =>
              \A i \in 1..Len(a.q.df) :
                  ~InTierLookup(a.q.df[i].exportedLender) =>
                      /\ ~IsNull(file)
                      /\ Len(Val(file)) = Len(a.q.df) + 1
                      /\ Val(file)[i + 1][1] = Quoted(a.q.df[i].exportedLender)
                      /\ Val(file)[i + 1][6] = EmptyField
                      /\ Val(file)[i + 1][7] = EmptyField
                      /\ Val(file)[i + 1][8] = EmptyField

(* C5: when competitor-list.csv cannot be read the run aborts: no lender
   after the one that hit the error is processed. *)
C5_MissingTierLookupAborts ==
    \A j \in 1..Len(errlog) :
        errlog[j].error = "FileNotFoundError" =>
            /\ idx >= 1
            /\ lenders[idx] = errlog[j].lender

(* the try block of this attempt raises nothing *)
OwnSuccess(a) ==
    /\ NoOutsideFailure(a)
    /\ \A month \in {one_month_before, two_months_before} :
          \E i \in 1..Len(a.q.df) :
              /\ InTierLookup(a.q.df[i].exportedLender)
              /\ a.q.df[i].time = Some(month)

Logged(name) == \E j \in 1..Len(errlog) : errlog[j].lender = name

C6_Isolation ==
    /\ idx <= Len(lenders)
    /\ Len(attempts) = idx
    /\ \A k \in 1..Len(attempts) :
          /\ attempts[k].lender = lenders[k]
          /\ IF OwnSuccess(attempts[k])
             THEN /\ ~IsNull(exports[lenders[k]])
                  /\ Len(Val(exports[lenders[k]])) = Len(attempts[k].q.df) + 1
                  /\ ~Logged(lenders[k])
             ELSE /\ IsNull(exports[lenders[k]])
                  /\ Logged(lenders[k])
    /\ \A k \in (idx + 1)..Len(lenders) :
          IsNull(exports[lenders[k]]) /\ ~Logged(lenders[k])

(* C6: a failure while processing one lender is logged and does not stop
   the run: the lenders are attempted in list order, each attempt that
   succeeds has its export written, each that fails has no export file,
   and the loop ends having attempted every lender. *)
C6_FailuresAreIsolated ==
    /\ [](C6_Isolation /\ (pc = "done" => idx = Len(lenders)))
    /\ <>(pc = "done")

=============================================================================
